---- MODULE Spec2Model ----
(***************************************************************************)
(* Emulated Roku: the SSDP discovery responder                             *)
(* (RokuDiscoveryServerProtocol) and the ECP HTTP API built by             *)
(* make_roku_api, as state machines.                                       *)
(*                                                                         *)
(* Text is modelled as sequences of one-character strings, so that         *)
(* startswith / in / find / indexing are computed as Python computes them. *)
(***************************************************************************)
EXTENDS Integers, Sequences, FiniteSets, TLC

(***************************************************************************)
(* Bounds of the model.                                                    *)
(***************************************************************************)
\* protocol instances created over a run (one per awaited discovery endpoint)
MaxProtos == 2
\* reply tasks that may be waiting on their delay at the same time
MaxPending == 2
\* largest MX value a generated query carries
MaxMX == 12
\* entries of a custom_apps text
MaxApps == 3

(***************************************************************************)
(* Program constants.                                                      *)
(***************************************************************************)
MUTLICAST_TTL == 300
SSDP_MAX_DELAY == 5
MULTICAST_GROUP == "239.255.255.250"
MULTICAST_PORT == 1900
MULTICAST_SEARCH_MSG == <<"M","-","S","E","A","R","C","H"," ","*"," ","H","T","T","P","/","1",".","1">>

\* the texts datagram_received looks for (lines 213 and 216)
ST_ALL == <<"S","T",":"," ","s","s","d","p",":","a","l","l">>
ST_ECP == <<"S","T",":"," ","r","o","k","u",":","e","c","p">>
MX_NAME == <<"M","X",":">>

(***************************************************************************)
(* Python string operations on character sequences.                        *)
(***************************************************************************)
\* s.startswith(p)
StartsWith(s, p) == Len(s) >= Len(p) /\ SubSeq(s, 1, Len(p)) = p

\* p occurs in s at 0-based index i
OccursAt(s, p, i) == i + Len(p) <= Len(s) /\ SubSeq(s, i + 1, i + Len(p)) = p

\* s.find(p): lowest 0-based index of p in s, -1 when absent
Find(s, p) ==
  LET hits == {i \in 0..(Len(s) - Len(p)) : OccursAt(s, p, i)}
  IN  IF hits = {} THEN -1
      ELSE CHOOSE i \in hits : \A j \in hits : i <= j

\* p in s
Contains(s, p) == Find(s, p) # -1

Digits == <<"0","1","2","3","4","5","6","7","8","9">>

\* int(c) for a one-character string: defined for the decimal digits only
IsDigit(c) == \E n \in 1..10 : Digits[n] = c
IntOfChar(c) == (CHOOSE n \in 1..10 : Digits[n] = c) - 1

\* str(n) for n >= 0
RECURSIVE StrOfNat(_)
StrOfNat(n) == IF n < 10 THEN <<Digits[n + 1]>>
               ELSE StrOfNat(n \div 10) \o <<Digits[(n % 10) + 1]>>

(***************************************************************************)
(* Inbound datagrams.  A datagram is described by its first line, its MX   *)
(* header and its ST header, and rendered to the text the socket delivers  *)
(* (layout of the queries in tests/test_emulated_roku.py).                 *)
(***************************************************************************)
CRLF == <<"\r","\n">>
HOST_HEADER == <<"H","O","S","T",":"," ","2","3","9",".","2","5","5",".","2","5","5",".","2","5","0",":","1","9","0","0">>

\* the three start lines of SSDP messages
FirstLineText(v) ==
  CASE v = "search" -> MULTICAST_SEARCH_MSG
    [] v = "notify" -> <<"N","O","T","I","F","Y"," ","*"," ","H","T","T","P","/","1",".","1">>
    [] v = "ok"     -> <<"H","T","T","P","/","1",".","1"," ","2","0","0"," ","O","K">>

\* ST header: absent, or "ST: <target>"
STText(st) ==
  CASE st = "none" -> <<>>
    [] st = "all"  -> ST_ALL \o CRLF
    [] st = "ecp"  -> ST_ECP \o CRLF
    [] st = "root" -> <<"S","T",":"," ","u","p","n","p",":","r","o","o","t","d","e","v","i","c","e">> \o CRLF

\* MX header: absent, "MX: k" for an integer k, or "MX: x"
NoMX == [kind |-> "none", k |-> 0]
IntMX(k) == [kind |-> "int", k |-> k]
BadMX == [kind |-> "bad", k |-> 0]
MXHeaders == {NoMX, BadMX} \cup {IntMX(k) : k \in 0..MaxMX}

MXText(mx) ==
  CASE mx.kind = "none" -> <<>>
    [] mx.kind = "int"  -> MX_NAME \o <<" ">> \o StrOfNat(mx.k) \o CRLF
    [] mx.kind = "bad"  -> MX_NAME \o <<" ","x">> \o CRLF

\* every query with a matching target, and some datagrams that are no query
Datagrams ==
  [verb : {"search"}, mx : MXHeaders, st : {"all", "ecp"}]
    \cup [verb : {"search"}, mx : {NoMX, BadMX, IntMX(3)}, st : {"none", "root"}]
    \cup [verb : {"notify", "ok"}, mx : {NoMX, BadMX, IntMX(3)}, st : {"none", "ecp", "all"}]

Render(d) ==
  FirstLineText(d.verb) \o CRLF \o HOST_HEADER \o CRLF \o MXText(d.mx) \o STText(d.st) \o CRLF

NoDatagram == [verb |-> "-", mx |-> NoMX, st |-> "none"]

\* where queries come from
Addrs == {"192.168.1.50", "192.168.1.51"}
NoAddr == "-"

(***************************************************************************)
(* datagram_received, lines 208-225: what the handler does with a text.    *)
(***************************************************************************)
\* IsSearchRequest without the test of the first line
IsSearchRequest_anyVerb(data) ==
  Contains(data, ST_ALL) \/ Contains(data, ST_ECP)

\* IsSearchRequest that knows the target roku:ecp only
IsSearchRequest_ecpOnly(data) ==
  StartsWith(data, MULTICAST_SEARCH_MSG) /\ Contains(data, ST_ECP)

\* line 212-213: the condition under which the datagram is a query
IsSearchRequest(data) ==
  StartsWith(data, MULTICAST_SEARCH_MSG)
    /\ (Contains(data, ST_ALL) \/ Contains(data, ST_ECP))

\* line 219: int(data[mx_value + 4]) raises IndexError past the end of the
\* text and ValueError on anything but a digit
MxParses(data) ==
  LET mx_value == Find(data, MX_NAME)
  IN  mx_value + 4 < Len(data) /\ IsDigit(data[mx_value + 5])

\* mx_delay without the reduction modulo SSDP_MAX_DELAY + 1
MxDelay_noModulo(data) ==
  LET mx_value == Find(data, MX_NAME)
  IN  IntOfChar(data[mx_value + 5])

\* line 219: mx_delay
MxDelay(data) ==
  LET mx_value == Find(data, MX_NAME)
  IN  IntOfChar(data[mx_value + 5]) % (SSDP_MAX_DELAY + 1)

\* DelayBound with the upper end of the default range one too far
DelayBound_offByOne(data) ==
  IF Find(data, MX_NAME) # -1
    THEN IntOfChar(data[Find(data, MX_NAME) + 5]) % (SSDP_MAX_DELAY + 1)
    ELSE SSDP_MAX_DELAY + 1

\* lines 216-223: the exclusive upper end of randrange is bound + 1
DelayBound(data) ==
  IF Find(data, MX_NAME) # -1 THEN MxDelay(data) ELSE SSDP_MAX_DELAY

\* "ignored": not a query; "error": the handler raises; "reply": a reply
\* task is created
Outcome(data) ==
  IF ~IsSearchRequest(data) THEN "ignored"
  ELSE IF Find(data, MX_NAME) # -1 /\ ~MxParses(data) THEN "error"
  ELSE "reply"

\* the handler's result for every datagram of the model, tabulated
Handled == [d \in Datagrams |->
              LET data == Render(d)
              IN  [outcome |-> Outcome(data),
                   bound |-> IF Outcome(data) = "reply" THEN DelayBound(data) ELSE 0]]
            @@ <<>>

(***************************************************************************)
(* State of the discovery responder.                                       *)
(*   transport[p]   the datagram transport of protocol instance p:         *)
(*                  "none" (self.transport is None), "open", "closing"     *)
(*                  (closed by its owner, is_closing() is true) or         *)
(*                  "closed" (connection_lost has run)                     *)
(*   notify_task[p] "none", "pending" (sleeping), "done" or "cancelled"    *)
(*   replies        the multicast_reply tasks waiting on their delay, in   *)
(*                  creation order; delay counts the seconds left          *)
(*   ev             what the last step of the responder did                *)
(*   announced[p]   whether instance p has sent a NOTIFY so far            *)
(*   notify_tasks[p] how many multicast_notify tasks of instance p sleep,   *)
(*                  the one self.notify_task names and any other           *)
(* State of the HTTP API.                                                  *)
(*   http           the last request and what it got                       *)
(*   api_server[p]  the HTTP endpoint made along with instance p: "none",  *)
(*                  "created" (make_roku_api has returned the coroutine),  *)
(*                  "listening" (the coroutine was awaited) or "closed"    *)
(***************************************************************************)
VARIABLES transport, notify_task, replies, ev, http, announced, api_server,
          notify_tasks

vars == <<transport, notify_task, replies, ev, http, announced, api_server,
         notify_tasks>>

Protos == 1..MaxProtos

NoEvent == [op |-> "init", proto |-> 0, addr |-> NoAddr, data |-> NoDatagram,
            bound |-> 0, delay |-> 0, result |-> "-"]

Event(op, p, addr, result) ==
  [op |-> op, proto |-> p, addr |-> addr, data |-> NoDatagram,
   bound |-> 0, delay |-> 0, result |-> result]

NoRequest == [op |-> "init"]

\* lines 122-126: class attributes before connection_made
Init ==
  /\ transport = [p \in Protos |-> "none"]
  /\ notify_task = [p \in Protos |-> "none"]
  /\ replies = <<>>
  /\ ev = NoEvent
  /\ http = NoRequest
  /\ announced = [p \in Protos |-> FALSE]
  /\ api_server = [p \in Protos |-> "none"]
  /\ notify_tasks = [p \in Protos |-> 0]

\* lines 186 and 202: self.transport is None or self.transport.is_closing()
TransportGone(p) == transport[p] \in {"none", "closing", "closed"}

\* lines 152-168.  The endpoint is awaited: a new protocol instance is made
\* and attached to its transport; the NOTIFY task is created and sleeps.
\* Instances are created in order, the next one once the one before it
\* has been closed.
connection_made(p) ==
  /\ transport[p] = "none"
  /\ \A q \in Protos : q < p => transport[q] \in {"closing", "closed"}
  /\ transport' = [transport EXCEPT ![p] = "open"]
  /\ notify_task' = [notify_task EXCEPT ![p] = "pending"]
  /\ notify_tasks' = [notify_tasks EXCEPT ![p] = @ + 1]
  /\ ev' = Event("connection_made", p, NoAddr, "-")
  /\ UNCHANGED <<replies, http, announced, api_server>>

\* The owner closes the discovery transport it got from the endpoint:
\* the transport is closing from now on and connection_lost follows.
close(p) ==
  /\ transport[p] = "open"
  /\ transport' = [transport EXCEPT ![p] = "closing"]
  /\ ev' = Event("close", p, NoAddr, "-")
  /\ UNCHANGED <<notify_task, replies, http, announced, api_server, notify_tasks>>

\* the test of line 178 without its guards
CancelWanted_unguarded(task) == TRUE

\* line 178: self.notify_task is not None and not self.notify_task.done();
\* a cancelled task is done
CancelWanted(task) == task # "none" /\ task \notin {"done", "cancelled"}

\* cancel() that leaves a sleeping task as it is
Cancel_leavesSleeping(task) ==
  CASE task = "none" -> [task |-> task, result |-> "error"]
    [] OTHER         -> [task |-> task, result |-> "nothing"]

\* line 179, self.notify_task.cancel(): None has no cancel and the call
\* raises; a task that is done stays as it is; a sleeping one is cancelled
Cancel(task) ==
  CASE task = "none"    -> [task |-> task, result |-> "error"]
    [] task = "pending" -> [task |-> "cancelled", result |-> "cancelled"]
    [] OTHER            -> [task |-> task, result |-> "nothing"]

\* lines 170-179.  The loop calls it once the transport is closed; it
\* assigns neither self.transport nor self.notify_task.  The result says
\* what the call did: "cancelled", "nothing" or "error" (it raised).
connection_lost(p) ==
  LET c == IF CancelWanted(notify_task[p]) THEN Cancel(notify_task[p])
           ELSE [task |-> notify_task[p], result |-> "nothing"]
  IN  /\ transport' = [transport EXCEPT
                         ![p] = IF transport[p] = "closing" THEN "closed"
                                ELSE transport[p]]
      /\ notify_task' = [notify_task EXCEPT ![p] = c.task]
      /\ notify_tasks' = [notify_tasks EXCEPT
                            ![p] = IF c.result = "cancelled" THEN @ - 1 ELSE @]
      /\ ev' = Event("connection_lost", p, NoAddr, c.result)
      /\ UNCHANGED <<replies, http, announced, api_server>>

\* the check of the NOTIFY task without is_closing()
NotifyDropped_ignoresClosing(p) == transport[p] = "none"

\* lines 186-187: the check the NOTIFY task makes when its sleep is over
NotifyDropped(p) == TransportGone(p)

\* multicast_notify that sends and creates no next task
multicast_notify_once(p) ==
  /\ notify_task[p] = "pending"
  /\ notify_task' = [notify_task EXCEPT ![p] = "done"]
  /\ notify_tasks' = [notify_tasks EXCEPT ![p] = @ - 1]
  /\ IF NotifyDropped(p)
       THEN /\ ev' = Event("multicast_notify", p, NoAddr, "dropped")
            /\ UNCHANGED announced
       ELSE /\ ev' = Event("multicast_notify", p, MULTICAST_GROUP, "sent")
            /\ announced' = [announced EXCEPT ![p] = TRUE]
  /\ UNCHANGED <<transport, replies, http, api_server>>

\* multicast_notify that creates the next task and goes on sleeping itself
multicast_notify_forks(p) ==
  /\ notify_task[p] = "pending"
  /\ IF NotifyDropped(p)
       THEN /\ notify_task' = [notify_task EXCEPT ![p] = "done"]
            /\ notify_tasks' = [notify_tasks EXCEPT ![p] = @ - 1]
            /\ ev' = Event("multicast_notify", p, NoAddr, "dropped")
            /\ UNCHANGED announced
       ELSE /\ notify_task' = [notify_task EXCEPT ![p] = "pending"]
            /\ notify_tasks' = [notify_tasks EXCEPT ![p] = @ + 1]
            /\ ev' = Event("multicast_notify", p, MULTICAST_GROUP, "sent")
            /\ announced' = [announced EXCEPT ![p] = TRUE]
  /\ UNCHANGED <<transport, replies, http, api_server>>

\* lines 181-195: the sleep of the NOTIFY task of p is over.  The task
\* ends; when it has sent, it has created the next one before (lines 194-195).
multicast_notify(p) ==
  /\ notify_task[p] = "pending"
  /\ IF NotifyDropped(p)
       THEN /\ notify_task' = [notify_task EXCEPT ![p] = "done"]
            /\ notify_tasks' = [notify_tasks EXCEPT ![p] = @ - 1]
            /\ ev' = Event("multicast_notify", p, NoAddr, "dropped")
            /\ UNCHANGED announced
       ELSE /\ notify_task' = [notify_task EXCEPT ![p] = "pending"]
            /\ notify_tasks' = [notify_tasks EXCEPT ![p] = @ - 1 + 1]
            /\ ev' = Event("multicast_notify", p, MULTICAST_GROUP, "sent")
            /\ announced' = [announced EXCEPT ![p] = TRUE]
  /\ UNCHANGED <<transport, replies, http, api_server>>

\* the reply task's check without is_closing()
ReplyDropped_ignoresClosing(p) == transport[p] = "none"

\* lines 202-203: the check a reply task makes when its sleep is over
ReplyDropped(p) == TransportGone(p)

Remove(s, i) == SubSeq(s, 1, i - 1) \o SubSeq(s, i + 1, Len(s))

\* multicast_reply that leaves a dropped reply waiting
multicast_reply_requeue(i) ==
  /\ i \in 1..Len(replies)
  /\ replies[i].delay = 0
  /\ LET r == replies[i]
     IN  /\ ev' = Event("multicast_reply", r.proto, r.addr,
                        IF TransportGone(r.proto) THEN "dropped" ELSE "sent")
         /\ replies' = IF TransportGone(r.proto) THEN replies ELSE Remove(replies, i)
  /\ UNCHANGED <<transport, notify_task, http, announced, api_server, notify_tasks>>

\* lines 197-206: the sleep of the i-th waiting reply task is over
multicast_reply(i) ==
  /\ i \in 1..Len(replies)
  /\ replies[i].delay = 0
  /\ LET r == replies[i]
     IN  ev' = Event("multicast_reply", r.proto, r.addr,
                     IF ReplyDropped(r.proto) THEN "dropped" ELSE "sent")
  /\ replies' = Remove(replies, i)
  /\ UNCHANGED <<transport, notify_task, http, announced, api_server, notify_tasks>>

\* datagram_received that closes its transport when the datagram fails
datagram_received_failClosed(p, d, addr) ==
  LET h == Handled[d]
      e == [op |-> "datagram_received", proto |-> p, addr |-> addr, data |-> d,
            bound |-> h.bound, delay |-> 0, result |-> h.outcome]
  IN  IF h.outcome = "reply"
        THEN /\ Len(replies) < MaxPending
             /\ \E delay \in 0..h.bound :
                  /\ replies' = Append(replies,
                                       [proto |-> p, addr |-> addr, delay |-> delay])
                  /\ ev' = [e EXCEPT !.delay = delay]
             /\ UNCHANGED <<transport, notify_task, http, announced, api_server, notify_tasks>>
        ELSE /\ ev' = e
             /\ transport' = [transport EXCEPT
                                ![p] = IF h.outcome = "error" THEN "closing" ELSE @]
             /\ UNCHANGED <<notify_task, replies, http, announced, api_server, notify_tasks>>

\* datagram_received that takes the next datagram only when no reply waits
datagram_received_serial(p, d, addr) ==
  LET h == Handled[d]
      e == [op |-> "datagram_received", proto |-> p, addr |-> addr, data |-> d,
            bound |-> h.bound, delay |-> 0, result |-> h.outcome]
  IN  /\ replies = <<>>
      /\ IF h.outcome = "reply"
           THEN /\ \E delay \in 0..h.bound :
                     /\ replies' = Append(replies,
                                          [proto |-> p, addr |-> addr, delay |-> delay])
                     /\ ev' = [e EXCEPT !.delay = delay]
                /\ UNCHANGED <<transport, notify_task, http, announced, api_server, notify_tasks>>
           ELSE /\ ev' = e
                /\ UNCHANGED <<transport, notify_task, replies, http, announced, api_server, notify_tasks>>

\* lines 208-225
datagram_received(p, d, addr) ==
  LET h == Handled[d]
      e == [op |-> "datagram_received", proto |-> p, addr |-> addr, data |-> d,
            bound |-> h.bound, delay |-> 0, result |-> h.outcome]
  IN  IF h.outcome = "reply"
        THEN /\ Len(replies) < MaxPending
             /\ \E delay \in 0..h.bound :
                  /\ replies' = Append(replies,
                                       [proto |-> p, addr |-> addr, delay |-> delay])
                  /\ ev' = [e EXCEPT !.delay = delay]
             /\ UNCHANGED <<transport, notify_task, http, announced, api_server, notify_tasks>>
        ELSE /\ ev' = e
             /\ UNCHANGED <<transport, notify_task, replies, http, announced, api_server, notify_tasks>>

\* one second passes; a task whose sleep is over runs before more time passes
Tick ==
  /\ replies # <<>>
  /\ \A i \in 1..Len(replies) : replies[i].delay > 0
  /\ replies' = [i \in 1..Len(replies) |->
                   [replies[i] EXCEPT !.delay = replies[i].delay - 1]]
  /\ ev' = Event("tick", 0, NoAddr, "-")
  /\ UNCHANGED <<transport, notify_task, http, announced, api_server, notify_tasks>>

\* the datagrams of the life-cycle specification: a query answered within a
\* second, a query with a malformed MX and an announcement of another device
Queries == {[verb |-> "search", mx |-> IntMX(1), st |-> "ecp"],
            [verb |-> "search", mx |-> BadMX, st |-> "all"],
            [verb |-> "notify", mx |-> NoMX, st |-> "ecp"]}

\* The responder over its life: instances are started and closed, and the
\* socket delivers datagrams to the instance whose transport is open.
Next ==
  \/ \E p \in Protos : connection_made(p)
  \/ \E p \in Protos : close(p)
  \/ \E p \in Protos : transport[p] = "closing" /\ connection_lost(p)
  \/ \E p \in Protos : multicast_notify(p)
  \/ \E i \in 1..MaxPending : multicast_reply(i)
  \/ \E p \in Protos, d \in Queries, addr \in Addrs :
       transport[p] = "open" /\ datagram_received(p, d, addr)
  \/ Tick

Spec == Init /\ [][Next]_vars

\* The handler on every datagram of the model: datagram_received is called
\* in any state of the instance, one datagram at a time.  The interval of the
\* NOTIFY timer is long against one query: the timer runs out here only
\* once the transport is gone, where it ends the task.
NextQuery ==
  \/ \E p \in Protos : connection_made(p)
  \/ \E p \in Protos : close(p)
  \/ \E p \in Protos : transport[p] = "closing" /\ connection_lost(p)
  \/ \E p \in Protos : NotifyDropped(p) /\ multicast_notify(p)
  \/ \E i \in 1..MaxPending : multicast_reply(i)
  \/ \E p \in Protos, d \in Datagrams, addr \in Addrs :
       replies = <<>> /\ datagram_received(p, d, addr)
  \/ Tick

SpecQuery == Init /\ [][NextQuery]_vars

\* The teardown on every state of an instance: connection_lost is called
\* whatever the transport and the NOTIFY task are, and more than once.
NextTeardown ==
  \/ \E p \in Protos : connection_made(p)
  \/ \E p \in Protos : close(p)
  \/ \E p \in Protos : connection_lost(p)
  \/ \E p \in Protos : multicast_notify(p)

SpecTeardown == Init /\ [][NextTeardown]_vars

(***************************************************************************)
(* The HTTP API of make_roku_api, lines 277-385.                           *)
(***************************************************************************)
\* the address and port the API listens on (src/example.py line 20, line 278)
host_ip == "192.168.1.101"
listen_port == "8060"
roku_usn == "usn"

\* lines 369-381: the routes, in the order they are added
Routes == <<
  [method |-> "GET",  path |-> "/",                  handler |-> "roku_root_handler"],
  [method |-> "POST", path |-> "/keydown/{key}",     handler |-> "roku_keydown_handler"],
  [method |-> "POST", path |-> "/keyup/{key}",       handler |-> "roku_keyup_handler"],
  [method |-> "POST", path |-> "/keypress/{key}",    handler |-> "roku_keypress_handler"],
  [method |-> "POST", path |-> "/launch/{id}",       handler |-> "roku_launch_handler"],
  [method |-> "POST", path |-> "/input",             handler |-> "roku_input_handler"],
  [method |-> "POST", path |-> "/search",            handler |-> "roku_search_handler"],
  [method |-> "GET",  path |-> "/query/apps",        handler |-> "roku_apps_handler"],
  [method |-> "GET",  path |-> "/query/icon/{id}",   handler |-> "roku_app_icon_handler"],
  [method |-> "GET",  path |-> "/query/active-app",  handler |-> "roku_active_app_handler"],
  [method |-> "GET",  path |-> "/query/device-info", handler |-> "roku_info_handler"] >>

RoutePaths == {Routes[i].path : i \in 1..Len(Routes)}

\* requests: method, path (one of the route patterns or a path no route
\* has), the value of the path variable, the Host header, the address the
\* request comes from, and whether the CommandHandler callback raises
Requests ==
  [method : {"GET", "POST"},
   path : RoutePaths \cup {"/unknown"},
   arg : {"Home", "12345"},
   host : [name : {host_ip, "evil.example.com"}, port : {"", listen_port, "8061"}],
   remote : {"127.0.0.1", "192.168.1.50", "8.8.8.8"},
   fault : BOOLEAN]

\* the callbacks with roku_keyup_handler calling on_keydown
CallbackOf_keyupCallsKeydown(handler) ==
  CASE handler = "roku_keydown_handler"  -> "on_keydown"
    [] handler = "roku_keyup_handler"    -> "on_keydown"
    [] handler = "roku_keypress_handler" -> "on_keypress"
    [] handler = "roku_launch_handler"   -> "launch"
    [] OTHER -> "none"

\* the callbacks with roku_search_handler calling launch
CallbackOf_searchCallsLaunch(handler) ==
  CASE handler = "roku_keydown_handler"  -> "on_keydown"
    [] handler = "roku_keyup_handler"    -> "on_keyup"
    [] handler = "roku_keypress_handler" -> "on_keypress"
    [] handler = "roku_launch_handler"   -> "launch"
    [] handler = "roku_search_handler"   -> "launch"
    [] OTHER -> "none"

\* the callback a route handler makes, lines 304-326
CallbackOf(handler) ==
  CASE handler = "roku_keydown_handler"  -> "on_keydown"
    [] handler = "roku_keyup_handler"    -> "on_keyup"
    [] handler = "roku_keypress_handler" -> "on_keypress"
    [] handler = "roku_launch_handler"   -> "launch"
    [] OTHER -> "none"

\* the body a route handler returns, lines 295-350
BodyOf(handler) ==
  CASE handler = "roku_root_handler"       -> "ROKU_INFO_TEMPLATE"
    [] handler = "roku_apps_handler"       -> "APPS_TEMPLATE"
    [] handler = "roku_active_app_handler" -> "ACTIVE_APP_TEMPLATE"
    [] handler = "roku_info_handler"       -> "ROKU_DEVICE_INFO_TEMPLATE"
    [] OTHER -> ""

\* a route handler that catches what its callback raises
RunHandler_isolated(handler, req) ==
  LET cb == CallbackOf(handler)
      calls == IF cb = "none" THEN <<>>
               ELSE <<[name |-> cb, usn |-> roku_usn, arg |-> req.arg]>>
  IN  [route |-> handler, calls |-> calls, status |-> 200, body |-> BodyOf(handler)]

\* lines 295-350: a route handler runs on a request
RunHandler(handler, req) ==
  LET cb == CallbackOf(handler)
      calls == IF cb = "none" THEN <<>>
               ELSE <<[name |-> cb, usn |-> roku_usn, arg |-> req.arg]>>
  IN  IF cb # "none" /\ req.fault
        THEN [route |-> handler, calls |-> calls, status |-> 500, body |-> ""]
        ELSE [route |-> handler, calls |-> calls, status |-> 200,
              body |-> BodyOf(handler)]

\* Dispatch behind a gate that takes the Host header only with the port
Dispatch_hostNeedsPort(req) ==
  LET byPath == {i \in 1..Len(Routes) : Routes[i].path = req.path}
      hit == {i \in byPath : Routes[i].method = req.method}
  IN  IF req.host.port = "" THEN [route |-> "none", calls |-> <<>>, status |-> 403, body |-> ""]
      ELSE IF byPath = {} THEN [route |-> "none", calls |-> <<>>, status |-> 404, body |-> ""]
      ELSE IF hit = {} THEN [route |-> "none", calls |-> <<>>, status |-> 405, body |-> ""]
      ELSE RunHandler(Routes[CHOOSE i \in hit : TRUE].handler, req)

\* lines 367-383: the application is made of the routes alone; a request
\* goes to the handler of the route its path and method match
Dispatch(req) ==
  LET byPath == {i \in 1..Len(Routes) : Routes[i].path = req.path}
      hit == {i \in byPath : Routes[i].method = req.method}
  IN  IF byPath = {} THEN [route |-> "none", calls |-> <<>>, status |-> 404, body |-> ""]
      ELSE IF hit = {} THEN [route |-> "none", calls |-> <<>>, status |-> 405, body |-> ""]
      ELSE RunHandler(Routes[CHOOSE i \in hit : TRUE].handler, req)

api_request(req) ==
  /\ http' = [op |-> "request", req |-> req] @@ Dispatch(req)
  /\ UNCHANGED <<transport, notify_task, replies, ev, announced, api_server, notify_tasks>>

NextApi == \E req \in Requests : api_request(req)

SpecApi == Init /\ [][NextApi]_vars

(***************************************************************************)
(* The two endpoints of make_roku_api, lines 352-385, and their owner      *)
(* (src/example.py lines 15-26).                                           *)
(***************************************************************************)
\* lines 277-385: the p-th call builds the protocol factory, the
\* application and the two endpoint coroutines and returns the coroutines;
\* it awaits neither, so no socket is bound when it returns
make_roku_api(p) ==
  /\ api_server[p] = "none"
  /\ \A q \in Protos : q < p => api_server[q] # "none"
  /\ api_server' = [api_server EXCEPT ![p] = "created"]
  /\ ev' = Event("make_roku_api", p, NoAddr, "returned")
  /\ UNCHANGED <<transport, notify_task, replies, http, announced, notify_tasks>>

\* line 383, awaited by the owner (src/example.py line 23): the HTTP
\* server listens on host_ip:listen_port, which no other server may hold
create_server(p) ==
  /\ api_server[p] = "created"
  /\ \A q \in Protos : api_server[q] # "listening"
  /\ api_server' = [api_server EXCEPT ![p] = "listening"]
  /\ ev' = Event("create_server", p, NoAddr, "-")
  /\ UNCHANGED <<transport, notify_task, replies, http, announced, notify_tasks>>

\* the owner closes the HTTP server it got from the endpoint
api_close(p) ==
  /\ api_server[p] = "listening"
  /\ api_server' = [api_server EXCEPT ![p] = "closed"]
  /\ ev' = Event("api_close", p, NoAddr, "-")
  /\ UNCHANGED <<transport, notify_task, replies, http, announced, notify_tasks>>

\* The endpoints over their life: make_roku_api is called, its owner
\* awaits the two coroutines in either order and closes what it got.
NextServer ==
  \/ \E p \in Protos : make_roku_api(p)
  \/ \E p \in Protos : api_server[p] # "none" /\ connection_made(p)
  \/ \E p \in Protos : create_server(p)
  \/ \E p \in Protos : close(p)
  \/ \E p \in Protos : transport[p] = "closing" /\ connection_lost(p)
  \/ \E p \in Protos : api_close(p)
  \/ \E p \in Protos : multicast_notify(p)

SpecServer == Init /\ [][NextServer]_vars

(***************************************************************************)
(* The application catalog: make_roku_api called with or without a         *)
(* custom_apps argument, and GET /query/apps on what it made.              *)
(***************************************************************************)
\* lines 81-92: the apps of the fixed catalog, in order
APPS_TEMPLATE ==
  [i \in 1..10 |-> [id |-> StrOfNat(i), name |-> <<"Emulated App", StrOfNat(i)>>]]

\* entries a custom_apps text is made of: "id:name", or a text without
\* the separator (tests lines 568-589)
AppEntries ==
  {[sep |-> TRUE,  id |-> <<"1", "0", "0">>, name |-> <<"Netflix">>],
   [sep |-> TRUE,  id |-> <<"2", "0", "0">>, name |-> <<"YouTube">>],
   [sep |-> TRUE,  id |-> <<"1">>,           name |-> <<"App One">>],
   [sep |-> FALSE, id |-> <<>>,              name |-> <<"invalid_no_colon">>],
   [sep |-> FALSE, id |-> <<>>,              name |-> <<"invalid">>]}

RECURSIVE SeqsUpTo(_, _)
SeqsUpTo(S, n) ==
  IF n = 0 THEN {<<>>}
  ELSE LET shorter == SeqsUpTo(S, n - 1)
       IN  shorter \cup {Append(s, e) : s \in shorter, e \in S}

\* what the caller passes for custom_apps: nothing, or a text of entries
CustomApps ==
  {[given |-> FALSE, entries |-> <<>>]}
    \cup {[given |-> TRUE, entries |-> s] : s \in SeqsUpTo(AppEntries, MaxApps)}

\* lines 277-281: the parameters are loop, handler, host_ip, listen_port,
\* advertise_ip, advertise_port and bind_multicast; a call that passes
\* custom_apps raises TypeError and makes nothing
SignatureAccepts(custom) == ~custom.given

\* make_roku_api(loop, handler, ...) with this custom_apps
make_roku_api_apps(custom) ==
  /\ http' = [op |-> "make_roku_api", custom |-> custom,
              result |-> IF SignatureAccepts(custom) THEN "returned" ELSE "error"]
  /\ UNCHANGED <<transport, notify_task, replies, ev, announced, api_server, notify_tasks>>

\* lines 328-331 on a request to the API that was made: the body is
\* APPS_TEMPLATE
roku_apps_handler(remote) ==
  /\ http.op \in {"make_roku_api", "roku_apps_handler"}
  /\ http.result # "error"
  /\ http' = [op |-> "roku_apps_handler", custom |-> http.custom,
              result |-> "returned", remote |-> remote,
              status |-> 200, catalog |-> APPS_TEMPLATE]
  /\ UNCHANGED <<transport, notify_task, replies, ev, announced, api_server, notify_tasks>>

NextApps ==
  \/ \E custom \in CustomApps : make_roku_api_apps(custom)
  \/ \E remote \in {"127.0.0.1", "192.168.1.50"} : roku_apps_handler(remote)

SpecApps == Init /\ [][NextApps]_vars

(***************************************************************************)
(* The arguments of make_roku_api, lines 277-293 and 352-365: the device   *)
(* identity and the address the discovery socket is bound to.              *)
(***************************************************************************)
\* an argument left out (None)
Absent == "None"

\* calls of make_roku_api: host_ip, listen_port, advertise_ip,
\* advertise_port and bind_multicast (lines 278-280), and os.name
Configs ==
  [host_ip : {host_ip, "10.0.0.1"},
   listen_port : {listen_port, "8061"},
   advertise_ip : {Absent, host_ip, "10.0.0.1"},
   advertise_port : {Absent, listen_port, "9090"},
   bind_multicast : {Absent, "True", "False"},
   osname : {"posix", "nt"}]

\* lines 282-283: advertise_ip or host_ip, advertise_port or listen_port
AdvertiseIp(cfg) == IF cfg.advertise_ip = Absent THEN cfg.host_ip ELSE cfg.advertise_ip
AdvertisePort(cfg) ==
  IF cfg.advertise_port = Absent THEN cfg.listen_port ELSE cfg.advertise_port

\* uuid.uuid5(namespace, name): a hash of namespace and name, taken as
\* free of collisions
Uuid5(namespace, name) == <<"uuid5", namespace, name>>

\* lines 285-286: uuid5(NAMESPACE_OID, "{}:{}".format(ip, port))
RokuUuid(cfg) == Uuid5("NAMESPACE_OID", AdvertiseIp(cfg) \o ":" \o AdvertisePort(cfg))

\* the usn derived from the address the API listens on
RokuUsn_fromListenAddress(cfg) ==
  <<"shortuuid", Uuid5("NAMESPACE_DNS", cfg.host_ip \o cfg.listen_port)>>

\* lines 288-289: USN_GENERATOR.uuid(name="{}{}".format(ip, port)), the
\* short encoding of uuid5(NAMESPACE_DNS, name) for a name that is no URL
RokuUsn(cfg) ==
  <<"shortuuid", Uuid5("NAMESPACE_DNS", AdvertiseIp(cfg) \o AdvertisePort(cfg))>>

\* line 279: bind_multicast=True is the default
BindMulticast(cfg) == cfg.bind_multicast # "False"

\* lines 356-360: the group address unless bind_multicast is false or the
\* platform is Windows ("even if requested")
MulticastIp(cfg) ==
  IF BindMulticast(cfg) /\ cfg.osname # "nt" THEN MULTICAST_GROUP ELSE cfg.host_ip

\* lines 362-365: local_addr of the discovery endpoint
LocalAddr(cfg) == <<MulticastIp(cfg), MULTICAST_PORT>>

\* make_roku_api with these arguments: what it derives and binds
make_roku_api_config(cfg) ==
  /\ http' = [op |-> "make_roku_api", config |-> cfg,
              roku_usn |-> RokuUsn(cfg), roku_uuid |-> RokuUuid(cfg),
              local_addr |-> LocalAddr(cfg)]
  /\ UNCHANGED <<transport, notify_task, replies, ev, announced, api_server, notify_tasks>>

NextConfig == \E cfg \in Configs : make_roku_api_config(cfg)

SpecConfig == Init /\ [][NextConfig]_vars

(***************************************************************************)
(* Properties.                                                             *)
(***************************************************************************)
Min(a, b) == IF a < b THEN a ELSE b

\* what a datagram is, read off its description
FirstLineIsSearch(d) == d.verb = "search"
DeclaresTarget(d) == d.st \in {"all", "ecp"}
MatchingQuery(d) == FirstLineIsSearch(d) /\ DeclaresTarget(d)

Closed(p) == transport[p] \in {"closing", "closed"}
SentBy(p) ==
  /\ ev.op \in {"multicast_reply", "multicast_notify"}
  /\ ev.proto = p
  /\ ev.result = "sent"

\* C1: once the transport of a responder has been closed it stays closed
\* and the responder sends nothing any more: no reply and no NOTIFY that
\* was scheduled before the close goes out, whatever the order of queries,
\* timer expiries, close and the start of the next instance.
C1_NothingSentAfterClose ==
  [][\A p \in Protos : Closed(p) => (Closed(p)' /\ ~SentBy(p)')]_vars

\* C1 witness: a reply of the first instance expires after that instance
\* was closed and the next one was started, and is dropped.
C1_Witness ==
  /\ ev.op = "multicast_reply"
  /\ ev.proto = 1
  /\ ev.result = "dropped"
  /\ transport[1] = "closed"
  /\ notify_task[1] = "cancelled"
  /\ transport[2] = "open"

\* C2: when the delay of a scheduled reply expires, the reply is sent iff
\* the transport is open at that moment; otherwise it is dropped.  Either
\* way the task is gone: nothing stays queued and nothing else changes.
C2_ReplyCheckedAtExpiry ==
  [][ev'.op = "multicast_reply" =>
       \E i \in 1..Len(replies) :
         /\ replies[i].delay = 0
         /\ ev'.proto = replies[i].proto
         /\ ev'.addr = replies[i].addr
         /\ ev'.result = IF transport[replies[i].proto] = "open"
                           THEN "sent" ELSE "dropped"
         /\ replies' = Remove(replies, i)
         /\ UNCHANGED <<transport, notify_task>>]_vars

\* C2 witness: a reply scheduled while the transport was open expires
\* while the transport is closing, and is dropped.
C2_Witness ==
  /\ ev.op = "multicast_reply"
  /\ ev.result = "dropped"
  /\ transport[ev.proto] = "closing"
  /\ notify_task[ev.proto] = "pending"

\* C3: a datagram whose first line is not the search verb schedules no
\* reply and changes nothing, in every state of the responder and with
\* every MX and ST header.
C3_NonSearchIgnored ==
  [][(ev'.op = "datagram_received" /\ ~FirstLineIsSearch(ev'.data)) =>
       /\ ev'.result = "ignored"
       /\ UNCHANGED <<transport, notify_task, replies>>]_vars

\* C3 witness: a NOTIFY with a matching ST header reaches an open
\* responder and is ignored.
C3_Witness ==
  /\ ev.op = "datagram_received"
  /\ ev.data.verb = "notify"
  /\ ev.data.st = "ecp"
  /\ ev.result = "ignored"
  /\ transport[ev.proto] = "open"

\* C4: a datagram is treated as a query iff its first line is the search
\* verb and it declares the target ssdp:all or roku:ecp; one with the
\* search verb and neither target is ignored and changes nothing.
C4_QueryIffVerbAndTarget ==
  [][ev'.op = "datagram_received" =>
       /\ (ev'.result # "ignored") <=> MatchingQuery(ev'.data)
       /\ (FirstLineIsSearch(ev'.data) /\ ~DeclaresTarget(ev'.data)) =>
            /\ ev'.result = "ignored"
            /\ UNCHANGED <<transport, notify_task, replies>>]_vars

\* C4 witness: an M-SEARCH for upnp:rootdevice is ignored.
C4_Witness ==
  /\ ev.op = "datagram_received"
  /\ ev.data.verb = "search"
  /\ ev.data.st = "root"
  /\ ev.data.mx = IntMX(3)
  /\ ev.result = "ignored"

\* C5: the delay of the reply scheduled for a matching query with MX: k
\* lies in 0..min(k, SSDP_MAX_DELAY).
C5_DelayWithinMX ==
  (ev.op = "datagram_received" /\ ev.result = "reply" /\ ev.data.mx.kind = "int")
    => ev.delay \in 0..Min(ev.data.mx.k, SSDP_MAX_DELAY)

\* C5 witness: a query with MX: 3 gets a reply delayed by 3.
C5_Witness ==
  /\ ev.op = "datagram_received"
  /\ ev.result = "reply"
  /\ ev.data.mx = IntMX(3)
  /\ ev.delay = 3

\* C6: for a matching query with MX: k the delay is drawn from
\* 0..min(k, SSDP_MAX_DELAY), the bound being k clamped to the window.
C6_BoundIsClampedMX ==
  (ev.op = "datagram_received" /\ MatchingQuery(ev.data) /\ ev.data.mx.kind = "int")
    => (ev.result = "reply" /\ ev.bound = Min(ev.data.mx.k, SSDP_MAX_DELAY))

\* C7: a matching query with a non-numeric MX gets one reply scheduled,
\* with a delay in 0..SSDP_MAX_DELAY, and the handler does not raise.
C7_MalformedMXStillAnswered ==
  (ev.op = "datagram_received" /\ MatchingQuery(ev.data) /\ ev.data.mx.kind = "bad")
    => (ev.result = "reply" /\ ev.delay \in 0..SSDP_MAX_DELAY)

\* C8: a matching query without MX header gets exactly one reply
\* scheduled, to its sender, with a delay in 0..SSDP_MAX_DELAY.
C8_NoMXAnswered ==
  [][(ev'.op = "datagram_received" /\ MatchingQuery(ev'.data)
        /\ ev'.data.mx.kind = "none") =>
       /\ ev'.result = "reply"
       /\ ev'.delay \in 0..SSDP_MAX_DELAY
       /\ replies' = Append(replies, [proto |-> ev'.proto, addr |-> ev'.addr,
                                      delay |-> ev'.delay])]_vars

\* C8 witness: a query without MX gets a reply delayed by the whole window.
C8_Witness ==
  /\ ev.op = "datagram_received"
  /\ MatchingQuery(ev.data)
  /\ ev.data.mx.kind = "none"
  /\ ev.result = "reply"
  /\ ev.delay = SSDP_MAX_DELAY
  /\ Len(replies) = 1

\* the Host headers the API is addressed by, and the local origins
HostAllowed(h) == h.name = host_ip /\ h.port \in {"", listen_port}
RemoteIsLocal(r) == r \in {"127.0.0.1", "192.168.1.50"}

\* C9: a request whose Host header is not the host address, with or
\* without the listen port, gets 403, and no route handler and no
\* CommandHandler callback runs for it.
C9_ForeignHostForbidden ==
  (http.op = "request" /\ ~HostAllowed(http.req.host))
    => (http.status = 403 /\ http.route = "none" /\ http.calls = <<>>)

\* C10: a request from an address that is neither loopback nor private
\* gets 403 even with a valid Host header, and no route handler and no
\* CommandHandler callback runs for it.
C10_NonLocalRemoteForbidden ==
  (http.op = "request" /\ HostAllowed(http.req.host) /\ ~RemoteIsLocal(http.req.remote))
    => (http.status = 403 /\ http.route = "none" /\ http.calls = <<>>)

\* the route a request matches by path and method, and its handler
RouteHit(req) ==
  {i \in 1..Len(Routes) : Routes[i].path = req.path /\ Routes[i].method = req.method}
HandlerFor(req) ==
  IF RouteHit(req) = {} THEN "none" ELSE Routes[CHOOSE i \in RouteHit(req) : TRUE].handler
Accepted(req) == HostAllowed(req.host) /\ RemoteIsLocal(req.remote)

\* C11: a request to a route whose Host header is the host address, with
\* or without the listen port, and which comes from a loopback or private
\* address reaches the handler of its route and never gets 403; it gets
\* the 200 of that route unless the CommandHandler callback raises.
C11_ValidRequestReachesHandler ==
  (http.op = "request" /\ Accepted(http.req) /\ RouteHit(http.req) # {})
    => /\ http.route = HandlerFor(http.req)
       /\ http.status # 403
       /\ (~http.req.fault => http.status = 200)
       /\ (CallbackOf(http.route) = "none" => http.status = 200)

\* C11 witness: GET /query/apps with the bare host address as Host header,
\* from a private address, is answered by roku_apps_handler with 200.
C11_Witness ==
  /\ http.op = "request"
  /\ http.req.method = "GET"
  /\ http.req.path = "/query/apps"
  /\ http.req.host = [name |-> host_ip, port |-> ""]
  /\ http.req.remote = "192.168.1.50"
  /\ http.route = "roku_apps_handler"
  /\ http.status = 200
  /\ http.body = "APPS_TEMPLATE"

\* the command routes and the callback each one stands for
CommandPaths == {"/keydown/{key}", "/keyup/{key}", "/keypress/{key}", "/launch/{id}"}
CommandOf(path) ==
  CASE path = "/keydown/{key}"  -> "on_keydown"
    [] path = "/keyup/{key}"    -> "on_keyup"
    [] path = "/keypress/{key}" -> "on_keypress"
    [] path = "/launch/{id}"    -> "launch"
AcceptedPost(req) == req.method = "POST" /\ Accepted(req)

\* C12: an accepted POST to /keydown/{key}, /keyup/{key}, /keypress/{key}
\* or /launch/{id} makes exactly one callback, the one of its route, with
\* the usn and the value of the path variable, and no other callback; when
\* the callback returns the response is 200 with an empty body.
C12_CommandCallsItsCallbackOnce ==
  (http.op = "request" /\ AcceptedPost(http.req) /\ http.req.path \in CommandPaths)
    => /\ http.calls = <<[name |-> CommandOf(http.req.path), usn |-> roku_usn,
                          arg |-> http.req.arg]>>
       /\ (~http.req.fault => (http.status = 200 /\ http.body = ""))

\* C12 witness: POST /keyup/Home from loopback with Host host:port calls
\* on_keyup(usn, "Home") and gets an empty 200.
C12_Witness ==
  /\ http.op = "request"
  /\ http.req.method = "POST"
  /\ http.req.path = "/keyup/{key}"
  /\ http.req.arg = "Home"
  /\ http.req.host = [name |-> host_ip, port |-> listen_port]
  /\ http.req.remote = "127.0.0.1"
  /\ ~http.req.fault
  /\ http.calls = <<[name |-> "on_keyup", usn |-> roku_usn, arg |-> "Home"]>>
  /\ http.status = 200
  /\ http.body = ""

\* the routes that are accepted and do nothing
StubPaths == {"/input", "/search"}

\* C13: an accepted POST to /input or /search gets 200 with an empty
\* body and makes no CommandHandler callback, whatever the handler
\* object would do if it were called.
C13_StubsCallNothing ==
  (http.op = "request" /\ AcceptedPost(http.req) /\ http.req.path \in StubPaths)
    => (http.status = 200 /\ http.body = "" /\ http.calls = <<>>)

\* C13 witness: POST /search from a private address, with a handler
\* object whose callbacks raise, gets an empty 200 from roku_search_handler.
C13_Witness ==
  /\ http.op = "request"
  /\ http.req.method = "POST"
  /\ http.req.path = "/search"
  /\ http.req.host = [name |-> host_ip, port |-> listen_port]
  /\ http.req.remote = "192.168.1.50"
  /\ http.req.fault
  /\ http.route = "roku_search_handler"
  /\ http.status = 200
  /\ http.calls = <<>>

\* C14: closing the responder cancels the pending NOTIFY task, closes the
\* transport and clears both references: once the teardown has run,
\* self.notify_task and self.transport are None.
C14_CloseClearsReferences ==
  (ev.op = "connection_lost")
    => /\ ev.result # "error"
       /\ notify_task[ev.proto] = "none"
       /\ transport[ev.proto] = "none"

\* C15: the teardown never raises, whether the NOTIFY task sleeps, has
\* finished, was cancelled or was never started, and a second teardown
\* right after a first one cancels nothing and leaves the instance as
\* the first left it.
C15_TeardownIdempotent ==
  [][ev'.op = "connection_lost" =>
       /\ ev'.result # "error"
       /\ (ev.op = "connection_lost" /\ ev.proto = ev'.proto) =>
            /\ ev'.result = "nothing"
            /\ UNCHANGED <<transport, notify_task, replies, announced>>]_vars

\* C15 witness: a teardown of a closed instance whose NOTIFY task is
\* already cancelled does nothing.
C15_Witness ==
  /\ ev.op = "connection_lost"
  /\ ev.result = "nothing"
  /\ transport[ev.proto] = "closed"
  /\ notify_task[ev.proto] = "cancelled"

\* C15, second case: a teardown of an instance that never started, or
\* whose NOTIFY task has finished, does nothing either.
C15_NeverStartedOrFinished ==
  /\ ev.op = "connection_lost"
  /\ ev.result = "nothing"
  /\ notify_task[ev.proto] \in {"none", "done"}

\* the endpoints of the p-th server
Listening(p) == transport[p] = "open"
Serving(p) == api_server[p] = "listening"
StartOps == {"make_roku_api"}
CloseOps == {"close", "api_close"}

\* C16: closing the server takes down both of its endpoints and clears
\* both references: once a close has run, neither the responder nor the
\* HTTP endpoint of that server is referenced any more, let alone live.
C16_CloseTakesDownBoth ==
  (ev.op \in CloseOps)
    => /\ ~Listening(ev.proto) /\ ~Serving(ev.proto)
       /\ transport[ev.proto] = "none" /\ api_server[ev.proto] = "none"

\* C17: when the start of a server has returned, its responder is
\* Listening with its transport attached and its HTTP endpoint serves.
C17_LiveWhenStartReturns ==
  (ev.op \in StartOps) => (Listening(ev.proto) /\ Serving(ev.proto))

\* C18: the two transports of a server exist exactly between its start
\* and its close: every start leaves both live, every close leaves
\* neither live, and no other step makes or ends one, for every server
\* started in turn.
C18_LiveBetweenStartAndClose ==
  [][\A p \in Protos :
       /\ (ev'.op \in StartOps /\ ev'.proto = p) => (Listening(p)' /\ Serving(p)')
       /\ (ev'.op \in CloseOps /\ ev'.proto = p) => (~Listening(p)' /\ ~Serving(p)')
       /\ ev'.op \notin (StartOps \cup CloseOps) =>
            /\ Listening(p)' <=> Listening(p)
            /\ Serving(p)' <=> Serving(p)]_vars

\* the NOTIFY timer of instance p fires in this step
NotifyFires(p) == ev'.op = "multicast_notify" /\ ev'.proto = p

\* C19: the NOTIFY is sent once at startup and then once per interval:
\* when the timer of an instance fires, at the end of an interval, the
\* instance has announced itself before, and if it is Listening it
\* announces itself once more.
C19_AnnouncedAtStartup ==
  [][\A p \in Protos :
       NotifyFires(p) => /\ announced[p]
                         /\ Listening(p) => ev'.result = "sent"]_vars

\* C20: connection_made schedules the NOTIFY task, and each firing of it
\* that finds the transport open sends and schedules the next one: as long
\* as an instance is Listening its NOTIFY task is pending.
C20_PendingWhileListening ==
  [][\A p \in Protos :
       /\ (ev'.op = "connection_made" /\ ev'.proto = p) => notify_task'[p] = "pending"
       /\ (NotifyFires(p) /\ Listening(p)) =>
            (ev'.result = "sent" /\ ev'.addr = MULTICAST_GROUP
               /\ notify_task'[p] = "pending")
       /\ Listening(p)' => notify_task'[p] = "pending"]_vars

\* C20 witness: the timer of a Listening instance has fired, the NOTIFY
\* went to the group and the next firing is pending.
C20_Witness ==
  /\ ev.op = "multicast_notify"
  /\ ev.result = "sent"
  /\ ev.addr = MULTICAST_GROUP
  /\ Listening(ev.proto)
  /\ announced[ev.proto]
  /\ notify_task[ev.proto] = "pending"

\* C21: a fault of a CommandHandler callback is not caught by the route
\* handler: when on_keydown, on_keyup, on_keypress or launch raises, the
\* request that called it does not get the empty 200.
C21_CallbackFaultReachesRequest ==
  (http.op = "request" /\ http.req.method = "POST"
     /\ http.req.path \in CommandPaths /\ http.req.fault)
    => /\ http.calls # <<>>
       /\ http.calls[1].name = CommandOf(http.req.path)
       /\ http.status # 200

\* C21 witness: POST /launch/12345 with a handler whose launch raises:
\* launch was called and the request ended as a server error.
C21_Witness ==
  /\ http.op = "request"
  /\ http.req.method = "POST"
  /\ http.req.path = "/launch/{id}"
  /\ http.req.arg = "12345"
  /\ http.req.fault
  /\ http.calls = <<[name |-> "launch", usn |-> roku_usn, arg |-> "12345"]>>
  /\ http.status = 500

\* the names of the entries with a separator, in input order
ValidNames(entries) == SelectSeq(entries, LAMBDA e : e.sep)
NamesOf(catalog) == [i \in 1..Len(catalog) |-> catalog[i].name]
HasValid(custom) == custom.given /\ ValidNames(custom.entries) # <<>>

\* C22: with a custom_apps text that has at least one "id:name" entry the
\* server is made without error and its catalog lists the names of the
\* valid entries, all of them, in input order, and nothing else.
C22_CatalogListsValidEntries ==
  (http.op \in {"make_roku_api", "roku_apps_handler"} /\ HasValid(http.custom))
    => /\ http.result # "error"
       /\ http.op = "roku_apps_handler" =>
            NamesOf(http.catalog) = NamesOf(ValidNames(http.custom.entries))

\* C23: with custom_apps absent, empty or without any valid entry the
\* server is made without error and GET /query/apps returns the fixed
\* catalog.
C23_DefaultCatalogOtherwise ==
  (http.op \in {"make_roku_api", "roku_apps_handler"} /\ ~HasValid(http.custom))
    => /\ http.result # "error"
       /\ http.op = "roku_apps_handler" =>
            (http.status = 200 /\ http.catalog = APPS_TEMPLATE)

\* the pair a device is advertised under
Advertised(cfg) == <<AdvertiseIp(cfg), AdvertisePort(cfg)>>

Wildcard == ""

\* C25: the discovery socket is bound to the wildcard address, port 1900,
\* when bind_multicast is true and to the host address, port 1900, when
\* it is false; a bind_multicast given by the caller is the one used, and
\* one left out is true except on Windows.
C25_BindTarget ==
  (http.op = "make_roku_api")
    => LET bind == IF http.config.bind_multicast = Absent
                     THEN http.config.osname # "nt"
                     ELSE http.config.bind_multicast = "True"
       IN  http.local_addr = <<IF bind THEN Wildcard ELSE http.config.host_ip,
                               MULTICAST_PORT>>

\* the reply task a query of the event e leaves behind
ReplyTaskOf(e) == [proto |-> e.proto, addr |-> e.addr, delay |-> e.delay]

\* C26: every matching query that reaches a Listening responder gets a
\* reply task of its own, addressed to its sender, whatever is waiting
\* already; nothing else creates a reply task; and a reply is sent only
\* from such a task, to the address of its query, once.
C26_OneReplyPerMatchingQuery ==
  [][/\ (ev'.op = "datagram_received" /\ MatchingQuery(ev'.data))
          => replies' = Append(replies, ReplyTaskOf(ev'))
     /\ (ev'.op = "datagram_received" /\ ~MatchingQuery(ev'.data))
          => replies' = replies
     /\ (ev'.op = "multicast_reply")
          => \E i \in 1..Len(replies) :
               /\ replies[i].proto = ev'.proto /\ replies[i].addr = ev'.addr
               /\ replies' = Remove(replies, i)
               /\ Listening(ev'.proto) => ev'.result = "sent"
     /\ (ev'.op \notin {"datagram_received", "multicast_reply"})
          => Len(replies') = Len(replies)]_vars

\* C27: a Listening responder can take the next datagram whatever waits:
\* with replies sleeping on their delay and with the NOTIFY task sleeping,
\* every datagram can be received, and every reply whose delay is over can
\* go out whatever its place among the waiting ones, so replies may leave
\* in another order than their queries came.
C27_ReceiveNeverBlocked ==
  \A p \in Protos :
    Listening(p) =>
      /\ Len(replies) < MaxPending =>
           \A d \in Queries, addr \in Addrs : ENABLED datagram_received(p, d, addr)
      /\ \A i \in 1..Len(replies) :
           replies[i].delay = 0 => ENABLED multicast_reply(i)

\* C27 witness: two replies wait with the NOTIFY task; the one of the
\* later query is due and the one of the earlier query is not.
C27_Witness ==
  /\ Len(replies) = 2
  /\ replies[1].delay > 0
  /\ replies[2].delay = 0
  /\ replies[1].addr # replies[2].addr
  /\ Listening(replies[2].proto)
  /\ notify_task[replies[2].proto] = "pending"

\* connection_lost runs on instance p in this step
LostFires(p) == ev'.op = "connection_lost" /\ ev'.proto = p

C29_NotifyEndsWithTransport ==
  [][\A p \in Protos :
       /\ NotifyFires(p) =>
            IF transport[p] = "open"
              THEN ev'.result = "sent" /\ ev'.addr = MULTICAST_GROUP
              ELSE /\ ev'.result = "dropped" /\ ev'.addr = NoAddr
                   /\ notify_task'[p] = "done"
                   /\ announced'[p] = announced[p]
       /\ notify_task[p] \in {"done", "cancelled"} => notify_task'[p] = notify_task[p]]_vars

\* C29 witness: the NOTIFY timer ran out while the transport was
\* closing; nothing was sent and the chain is over.
C29_Witness ==
  /\ ev.op = "multicast_notify"
  /\ ev.result = "dropped"
  /\ transport[ev.proto] = "closing"
  /\ notify_task[ev.proto] = "done"

\* the transport of p is attached: connection_made has run and
\* connection_lost has not
Attached(p) == transport[p] \in {"open", "closing"}

\* C30: a responder never has more than one NOTIFY task sleeping, the
\* one self.notify_task names, and it has one only while its transport is
\* attached: there are never two chains of announcements.
C30_OneNotifyTask ==
  \A p \in Protos :
    /\ notify_tasks[p] \in {0, 1}
    /\ notify_tasks[p] = 1 <=> notify_task[p] = "pending"
    /\ notify_task[p] = "pending" => Attached(p)

\* C30 witness: a NOTIFY was sent and exactly one task, the next one,
\* sleeps, while the instance before it has none left.
C30_Witness ==
  /\ ev.op = "multicast_notify"
  /\ ev.result = "sent"
  /\ ev.proto = 2
  /\ notify_tasks[2] = 1
  /\ transport[1] = "closed"
  /\ notify_tasks[1] = 0


\* the handler has just raised on a datagram
DatagramFailed == ev.op = "datagram_received" /\ ev.result = "error"

\* a query that matches and whose MX parses
ValidQuery == [verb |-> "search", mx |-> IntMX(1), st |-> "ecp"]

\* the instance takes the valid query from addr and creates its reply task
Answers(p, addr) ==
  /\ datagram_received(p, ValidQuery, addr)
  /\ ev'.result = "reply"
  /\ Len(replies') = Len(replies) + 1
  /\ replies'[Len(replies')].proto = p
  /\ replies'[Len(replies')].addr = addr
  /\ \A i \in 1..Len(replies) : replies'[i] = replies[i]

====
